---- MODULE Spec2Model ----
(***************************************************************************)
(* A model of the natural-language query core of the data dashboard:       *)
(* analyzeData and executeSimpleQuery of src/utils/dataProcessor.ts.       *)
(*                                                                         *)
(* JavaScript strings are sequences of one-character strings, so that      *)
(* includes, toLowerCase, trim, the limit regular expression, String(),    *)
(* Number() and toFixed(2) are computed character by character.            *)
(* A cell value is a record [k, n, s]: k is "num" (the number n), "str"    *)
(* (the string s), "null" or "undefined".  A row is the sequence of its    *)
(* [k |-> key, v |-> value] entries in insertion order (Object.keys order).*)
(***************************************************************************)
EXTENDS Integers, Sequences, FiniteSets, TLC

VARIABLES data, query, queryResult, stats,
          filename, queryHistory, isLoadingFile, isLoadingQuery, selectedTab,
          mounted, upload

\* the rest of the dashboard's state: the useState values of DataDashboard
\* besides data, stats and queryResult, whether the mount effect has run, and
\* the file that handleFileUpload is parsing (Null when there is none)
session == <<filename, queryHistory, isLoadingFile, isLoadingQuery, selectedTab, mounted, upload>>

vars == <<data, query, queryResult, stats, session>>

----------------------------------------------------------------------------
(* Bounds of the model *)

\* longest dataset drawn from RowPool
MaxRows == 2
\* most phrases a question text is made of
MaxPhrases == 2

----------------------------------------------------------------------------
(* JavaScript values *)

\* the useState initial values of DataDashboard besides data, stats and queryResult
InitSession ==
  /\ filename = <<>>
  /\ queryHistory = <<>>
  /\ isLoadingFile = FALSE
  /\ isLoadingQuery = FALSE
  /\ selectedTab = 0
  /\ mounted = FALSE
  /\ upload = [k |-> "null", n |-> 0, s |-> <<>>]

Num(i) == [k |-> "num", n |-> i, s |-> <<>>]
Str(t) == [k |-> "str", n |-> 0, s |-> t]
Null == [k |-> "null", n |-> 0, s |-> <<>>]
Undefined == [k |-> "undefined", n |-> 0, s |-> <<>>]

\* the result of Number(): a number or NaN
NaN == [nan |-> TRUE, n |-> 0]
Finite(i) == [nan |-> FALSE, n |-> i]

DigitChars == <<"0", "1", "2", "3", "4", "5", "6", "7", "8", "9">>
DigitVal == [c \in {DigitChars[i] : i \in 1..10} |-> CHOOSE i \in 0..9 : DigitChars[i + 1] = c]
IsDigit(c) == c \in DOMAIN DigitVal
IsSpace(c) == c = " "

UpperChars == <<"A","B","C","D","E","F","G","H","I","J","K","L","M","N","O","P","Q","R","S","T","U","V","W","X","Y","Z">>
LowerChars == <<"a","b","c","d","e","f","g","h","i","j","k","l","m","n","o","p","q","r","s","t","u","v","w","x","y","z">>
LowerOf == [c \in {UpperChars[i] : i \in 1..26} |-> LowerChars[CHOOSE i \in 1..26 : UpperChars[i] = c]]

SetMin(S) == CHOOSE x \in S : \A y \in S : x <= y
SetMax(S) == CHOOSE x \in S : \A y \in S : x >= y

\* String.prototype.toLowerCase
toLowerCase(s) == [i \in 1..Len(s) |-> IF s[i] \in DOMAIN LowerOf THEN LowerOf[s[i]] ELSE s[i]]

\* String.prototype.trim
RECURSIVE trimStart(_)
trimStart(s) == IF s # <<>> /\ IsSpace(s[1]) THEN trimStart(Tail(s)) ELSE s

RECURSIVE trimEnd(_)
trimEnd(s) == IF s # <<>> /\ IsSpace(s[Len(s)]) THEN trimEnd(SubSeq(s, 1, Len(s) - 1)) ELSE s

trim(s) == trimEnd(trimStart(s))

\* whether the non-empty k occurs in s at position i of s
OccursAt(s, k, i) ==
  s[i] = k[1] /\ i + Len(k) - 1 <= Len(s) /\ \A j \in 2..Len(k) : s[i + j - 1] = k[j]

\* String.prototype.includes
includes(s, k) ==
  \/ k = <<>>
  \/ \E i \in 1..(Len(s) - Len(k) + 1) : s[i] = k[1] /\ \A j \in 2..Len(k) : s[i + j - 1] = k[j]

\* the decimal digits of a natural number
RECURSIVE NatToString(_)
NatToString(i) == IF i < 10 THEN <<DigitChars[i + 1]>> ELSE NatToString(i \div 10) \o <<DigitChars[(i % 10) + 1]>>

\* Number.prototype.toString of an integer
IntToString(i) == IF i < 0 THEN <<"-">> \o NatToString(-i) ELSE NatToString(i)

\* parseInt of a run of decimal digits
RECURSIVE parseInt(_)
parseInt(d) == IF d = <<>> THEN 0 ELSE parseInt(SubSeq(d, 1, Len(d) - 1)) * 10 + DigitVal[d[Len(d)]]

\* String(v)
String(v) ==
  CASE v.k = "num" -> IntToString(v.n)
    [] v.k = "str" -> v.s
    [] v.k = "null" -> <<"n","u","l","l">>
    [] OTHER -> <<"u","n","d","e","f","i","n","e","d">>

\* Number(v): null is 0, undefined is NaN, a string is trimmed and read as an
\* optionally signed decimal integer (the empty string is 0), anything else is NaN
Number(v) ==
  CASE v.k = "num" -> Finite(v.n)
    [] v.k = "null" -> Finite(0)
    [] v.k = "undefined" -> NaN
    [] OTHER ->
      LET t == trim(v.s)
          signed == t # <<>> /\ t[1] \in {"-", "+"}
          d == IF signed THEN SubSeq(t, 2, Len(t)) ELSE t
      IN IF t = <<>> THEN Finite(0)
         ELSE IF d # <<>> /\ \A i \in 1..Len(d) : IsDigit(d[i])
              THEN Finite(IF signed /\ t[1] = "-" THEN -parseInt(d) ELSE parseInt(d))
              ELSE NaN

\* !isNaN(new Date(v).getTime()): a number is a time value; a string is a date
\* when it has the form YYYY-MM-DD with a month 01..12 and a day 01..31
IsValidDate(v) ==
  CASE v.k = "num" -> TRUE
    [] v.k = "null" -> TRUE
    [] v.k = "undefined" -> FALSE
    [] OTHER ->
      LET t == v.s
      IN /\ Len(t) = 10
         /\ \A i \in {1, 2, 3, 4, 6, 7, 9, 10} : IsDigit(t[i])
         /\ t[5] = "-" /\ t[8] = "-"
         /\ parseInt(SubSeq(t, 6, 7)) \in 1..12
         /\ parseInt(SubSeq(t, 9, 10)) \in 1..31

\* Array.prototype.slice(start, end)
slice(a, start, end) ==
  LET len == Len(a)
      from == IF start < 0 THEN (IF len + start > 0 THEN len + start ELSE 0)
              ELSE (IF start < len THEN start ELSE len)
      to == IF end < 0 THEN (IF len + end > 0 THEN len + end ELSE 0)
            ELSE (IF end < len THEN end ELSE len)
  IN SubSeq(a, from + 1, to)

\* Array.prototype.slice(start)
sliceFrom(a, start) == slice(a, start, Len(a))

\* a null entry of the dataset array: its one key is no string of characters,
\* so that no column name equals it
NullRow == <<[k |-> <<"null">>, v |-> Null]>>

\* the message of the TypeError thrown by row[column] on a null row
CannotRead(column) == <<"C","a","n","n","o","t"," ","r","e","a","d"," ","p","r","o","p","e","r","t","i","e","s"," ","o","f"," ","n","u","l","l"," ","(","r","e","a","d","i","n","g"," ","'">> \o column \o <<"'",")">>

\* the message of the TypeError thrown by Object.keys(null)
CannotConvert == <<"C","a","n","n","o","t"," ","c","o","n","v","e","r","t"," ","u","n","d","e","f","i","n","e","d"," ","o","r"," ","n","u","l","l"," ","t","o"," ","o","b","j","e","c","t">>

\* Object.keys(row) of a row with string keys: insertion order
ObjectKeys(row) == [i \in 1..Len(row) |-> row[i].k]

\* row[column]
Get(row, column) ==
  IF \E i \in 1..Len(row) : row[i].k = column
  THEN row[CHOOSE i \in 1..Len(row) : row[i].k = column].v
  ELSE Undefined


----------------------------------------------------------------------------
(* analyzeData *)

\* data.slice(0, 100): the rows a column's type is inferred from
SampleSize == 100

\* val !== null && val !== undefined && val !== ''
IsPresent(v) == v.k \notin {"null", "undefined"} /\ v # Str(<<>>)

\* the non-empty values of a column among the sampled rows
sampleValues(d, column) ==
  LET sample == slice(d, 0, SampleSize)
  IN SelectSeq([i \in 1..Len(sample) |-> Get(sample[i], column)], IsPresent)

IsNumeric(v) == ~Number(v).nan

\* isNumericColumn asking every value to be numeric
isNumericColumnEvery(values) == Len(SelectSeq(values, IsNumeric)) = Len(values)

\* numericValues.length > values.length * 0.8
isNumericColumn(values) == Len(SelectSeq(values, IsNumeric)) * 10 > Len(values) * 8

\* dateValues.length > values.length * 0.8
isDateColumn(values) == Len(SelectSeq(values, IsValidDate)) * 10 > Len(values) * 8

\* columnType testing the dates before the numbers
columnTypeDateFirst(d, column) ==
  LET values == sampleValues(d, column)
  IN IF Len(values) = 0 THEN "text"
     ELSE IF isDateColumn(values) THEN "date"
     ELSE IF isNumericColumn(values) THEN "numeric"
     ELSE "text"

\* the list a column is pushed to by the forEach body
columnType(d, column) ==
  LET values == sampleValues(d, column)
  IN IF Len(values) = 0 THEN "text"
     ELSE IF isNumericColumn(values) THEN "numeric"
     ELSE IF isDateColumn(values) THEN "date"
     ELSE "text"

\* the columns pushed to one of the three lists, in column order
RECURSIVE columnsOfType(_, _, _)
columnsOfType(columns, types, type) ==
  IF columns = <<>> THEN <<>>
  ELSE (IF types[1] = type THEN <<columns[1]>> ELSE <<>>)
       \o columnsOfType(Tail(columns), Tail(types), type)

\* the dataset after analyzeData(data): data.slice(0, 100), map and filter build
\* new arrays, and no statement assigns to data, to an element of data or to a
\* property of a row
dataAfterAnalyze(d) == d

\* the message of the exception analyzeData throws on a dataset with null
\* entries, <<>> when it returns: Object.keys(data[0]) of a null first row, or
\* row[column] of a null row among the sampled ones
analyzeDataError(d) ==
  IF Len(d) = 0 THEN <<>>
  ELSE IF d[1] = NullRow THEN CannotConvert
  ELSE LET columns == ObjectKeys(d[1])
           sample == slice(d, 0, SampleSize)
       IN IF columns # <<>> /\ \E i \in 1..Len(sample) : sample[i] = NullRow
          THEN CannotRead(columns[1])
          ELSE <<>>

analyzeData(d) ==
  IF Len(d) = 0
  THEN [totalRows |-> 0, totalColumns |-> 0, numericColumns |-> <<>>,
        textColumns |-> <<>>, dateColumns |-> <<>>]
  ELSE LET columns == ObjectKeys(d[1])
           types == [i \in 1..Len(columns) |-> columnType(d, columns[i])]
       IN [totalRows |-> Len(d), totalColumns |-> Len(columns),
           numericColumns |-> columnsOfType(columns, types, "numeric"),
           textColumns |-> columnsOfType(columns, types, "text"),
           dateColumns |-> columnsOfType(columns, types, "date")]

----------------------------------------------------------------------------
(* executeSimpleQuery *)

\* the first position at or after a where s has no white space (Len(s) + 1 at the end)
SpacesEnd(s, a) == SetMin({p \in a..(Len(s) + 1) : p = Len(s) + 1 \/ ~IsSpace(s[p])})

\* the first position at or after b where s has no digit (Len(s) + 1 at the end)
DigitsEnd(s, b) == SetMin({p \in b..(Len(s) + 1) : p = Len(s) + 1 \/ ~IsDigit(s[p])})

\* whether keyword\s+\d+ matches s at position i
LimitMatchAt(s, keyword, i) ==
  /\ OccursAt(s, keyword, i)
  /\ LET a == i + Len(keyword)
         b == SpacesEnd(s, a)
     IN b > a /\ b <= Len(s) /\ IsDigit(s[b])

\* s.match(/(?:k1|k2)\s+(\d+)/): the digits captured by the leftmost match,
\* <<>> when there is no match
limitMatch(s, keywords) ==
  LET hits == {i \in 1..Len(s) : \E k \in keywords : LimitMatchAt(s, k, i)}
  IN IF hits = {} THEN <<>>
     ELSE LET i == SetMin(hits)
              k == CHOOSE kw \in keywords : LimitMatchAt(s, kw, i)
              b == SpacesEnd(s, i + Len(k))
          IN SubSeq(s, b, DigitsEnd(s, b) - 1)

\* match ? parseInt(match[1]) : 10
DefaultLimit == 10
parseLimit(s, keywords) ==
  LET match == limitMatch(s, keywords)
  IN IF match # <<>> THEN parseInt(match) ELSE DefaultLimit

hasHead(lowerQuery) == includes(lowerQuery, <<"t","o","p">>) \/ includes(lowerQuery, <<"f","i","r","s","t">>)
hasTail(lowerQuery) == includes(lowerQuery, <<"l","a","s","t">>)
hasFilter(lowerQuery) == includes(lowerQuery, <<"w","h","e","r","e">>) \/ includes(lowerQuery, <<"f","i","l","t","e","r">>)
hasGroup(lowerQuery) == includes(lowerQuery, <<"g","r","o","u","p"," ","b","y">>) \/ includes(lowerQuery, <<"c","o","u","n","t">>)
hasAverage(lowerQuery) == includes(lowerQuery, <<"a","v","e","r","a","g","e">>) \/ includes(lowerQuery, <<"a","v","g">>)
hasSum(lowerQuery) == includes(lowerQuery, <<"s","u","m">>) \/ includes(lowerQuery, <<"t","o","t","a","l">>)

headLimit(lowerQuery) == parseLimit(lowerQuery, {<<"t","o","p">>, <<"f","i","r","s","t">>})
tailLimit(lowerQuery) == parseLimit(lowerQuery, {<<"l","a","s","t">>})

\* headStep with the slice starting at index 1 instead of 0
headStepFromOne(d, result, lowerQuery) ==
  IF hasHead(lowerQuery) THEN slice(d, 1, headLimit(lowerQuery)) ELSE result

\* if (top || first) result = data.slice(0, limit)
headStep(d, result, lowerQuery) ==
  IF hasHead(lowerQuery) THEN slice(d, 0, headLimit(lowerQuery)) ELSE result

\* tailStep taking the last rows whether or not the text contains "last"
tailStepAlways(d, result, lowerQuery) == sliceFrom(d, -tailLimit(lowerQuery))

\* if (last) result = data.slice(-limit)
tailStep(d, result, lowerQuery) ==
  IF hasTail(lowerQuery) THEN sliceFrom(d, -tailLimit(lowerQuery)) ELSE result

\* Object.keys(data[0] || {})
firstRowKeys(d) == IF Len(d) = 0 \/ d[1] = NullRow THEN <<>> ELSE ObjectKeys(d[1])

\* the first column, in the first row's key order, whose name occurs in the
\* text; <<>> (undefined) when there is none
namedColumn(d, lowerQuery) ==
  LET columns == firstRowKeys(d)
      hits == {i \in 1..Len(columns) : includes(lowerQuery, columns[i])}
  IN IF hits = {} THEN <<>> ELSE columns[SetMin(hits)]

\* filterStep filtering the whole dataset instead of the current result
filterStepOfData(d, result, lowerQuery) ==
  LET column == namedColumn(d, lowerQuery)
      Keep(row) == includes(toLowerCase(String(Get(row, column))), column)
  IN IF hasFilter(lowerQuery) /\ column # <<>> THEN SelectSeq(d, Keep) ELSE result

\* if (where || filter) keep the rows whose cell text contains the column name
filterStep(d, result, lowerQuery) ==
  LET column == namedColumn(d, lowerQuery)
      Keep(row) == includes(toLowerCase(String(Get(row, column))), column)
  IN IF hasFilter(lowerQuery) /\ column # <<>> THEN SelectSeq(result, Keep) ELSE result

\* whether a property key is an array index: Object.entries lists these first,
\* in ascending numeric order, before the other keys in insertion order
IsArrayIndex(key) ==
  /\ key # <<>>
  /\ \A i \in 1..Len(key) : IsDigit(key[i])
  /\ (Len(key) = 1 \/ key[1] # "0")
  /\ Len(key) <= 9

RECURSIVE SortAscending(_)
SortAscending(S) ==
  IF S = {} THEN <<>> ELSE <<SetMin(S)>> \o SortAscending(S \ {SetMin(S)})

\* Object.entries(grouped) for the keys String(row[groupColumn]) of the rows
groupedKeys(rows, groupColumn) ==
  LET keyOf(i) == String(Get(rows[i], groupColumn))
      firsts == {i \in 1..Len(rows) : \A j \in 1..(i - 1) : keyOf(j) # keyOf(i)}
      indexKeys == SortAscending({parseInt(keyOf(i)) : i \in {j \in firsts : IsArrayIndex(keyOf(j))}})
      otherAt == SortAscending({i \in firsts : ~IsArrayIndex(keyOf(i))})
  IN [i \in 1..Len(indexKeys) |-> NatToString(indexKeys[i])]
     \o [i \in 1..Len(otherAt) |-> keyOf(otherAt[i])]

\* { [groupColumn]: key, count: count }
groupRow(groupColumn, key, count) ==
  IF groupColumn = <<"c","o","u","n","t">>
  THEN <<[k |-> <<"c","o","u","n","t">>, v |-> Num(count)]>>
  ELSE <<[k |-> groupColumn, v |-> Str(key)], [k |-> <<"c","o","u","n","t">>, v |-> Num(count)]>>

\* groupStep counting over the whole dataset instead of the current result
groupStepOfData(d, result, lowerQuery) ==
  LET groupColumn == namedColumn(d, lowerQuery)
  IN IF hasGroup(lowerQuery) /\ groupColumn # <<>>
     THEN LET keys == groupedKeys(d, groupColumn)
              occurrences(key) ==
                Cardinality({i \in 1..Len(d) : String(Get(d[i], groupColumn)) = key})
          IN [i \in 1..Len(keys) |-> groupRow(groupColumn, keys[i], occurrences(keys[i]))]
     ELSE result

\* if (group by || count) one row per key of the current result, with its count
groupStep(d, result, lowerQuery) ==
  LET groupColumn == namedColumn(d, lowerQuery)
  IN IF hasGroup(lowerQuery) /\ groupColumn # <<>>
     THEN LET keys == groupedKeys(result, groupColumn)
              occurrences(key) ==
                Cardinality({i \in 1..Len(result) : String(Get(result[i], groupColumn)) = key})
          IN [i \in 1..Len(keys) |-> groupRow(groupColumn, keys[i], occurrences(keys[i]))]
     ELSE result

\* firstNumericColumn reading the statistics the dashboard holds instead of
\* analyzing the dataset of the call
firstNumericColumnOfSession(d) ==
  IF stats = Null \/ stats.numericColumns = <<>> THEN <<>> ELSE stats.numericColumns[1]

\* stats.numericColumns[0]; <<>> when undefined
firstNumericColumn(d) ==
  LET numericColumns == analyzeData(d).numericColumns
  IN IF numericColumns = <<>> THEN <<>> ELSE numericColumns[1]

\* `${numericCol}` in a template literal
interpolate(numericCol) == IF numericCol = <<>> THEN <<"u","n","d","e","f","i","n","e","d">> ELSE numericCol

\* a value that is no number counted as 1
NumberOrOne(v) == IF Number(v).nan THEN 1 ELSE Number(v).n

\* Number(v) || 0
NumberOrZero(v) == IF Number(v).nan THEN 0 ELSE Number(v).n

\* data.reduce((acc, row) => acc + (Number(row[numericCol]) || 0), 0)
RECURSIVE columnSum(_, _)
columnSum(d, numericCol) ==
  IF d = <<>> THEN 0
  ELSE columnSum(SubSeq(d, 1, Len(d) - 1), numericCol) + NumberOrZero(Get(d[Len(d)], numericCol))

\* (sum / count).toFixed(2): the quotient rounded to hundredths, half away from
\* zero, with two decimals (exact for counts that are not multiples of 8)
toFixed2(sum, count) ==
  LET abs == IF sum < 0 THEN -sum ELSE sum
      hundredths == (200 * abs + count) \div (2 * count)
      cents == hundredths % 100
  IN (IF sum < 0 THEN <<"-">> ELSE <<>>)
     \o NatToString(hundredths \div 100) \o <<".">>
     \o <<DigitChars[(cents \div 10) + 1], DigitChars[(cents % 10) + 1]>>

\* averageStep averaging the current result instead of the whole dataset
averageStepOfResult(d, result, lowerQuery) ==
  LET numericCol == firstNumericColumn(d)
  IN IF hasAverage(lowerQuery) /\ numericCol # <<>>
     THEN <<<<[k |-> <<"a","v","e","r","a","g","e","_">> \o numericCol,
               v |-> Str(IF result = <<>> THEN <<"N","a","N">>
                         ELSE toFixed2(columnSum(result, numericCol), Len(result)))]>>>>
     ELSE result

\* averageStep without the if (numericCol) guard
averageStepUnguarded(d, result, lowerQuery) ==
  LET numericCol == firstNumericColumn(d)
  IN IF hasAverage(lowerQuery)
     THEN <<<<[k |-> <<"a","v","e","r","a","g","e","_">> \o interpolate(numericCol),
               v |-> Str(IF d = <<>> THEN <<"N","a","N">>
                         ELSE toFixed2(columnSum(d, numericCol), Len(d)))]>>>>
     ELSE result

\* if (average || avg) result = [{ average_<col>: avg.toFixed(2) }]
averageStep(d, result, lowerQuery) ==
  LET numericCol == firstNumericColumn(d)
  IN IF hasAverage(lowerQuery) /\ numericCol # <<>>
     THEN <<<<[k |-> <<"a","v","e","r","a","g","e","_">> \o numericCol,
               v |-> Str(toFixed2(columnSum(d, numericCol), Len(d)))]>>>>
     ELSE result

\* sumStep summing the numeric column the text names instead of the first one
sumStepOfNamedColumn(d, result, lowerQuery) ==
  LET numericColumns == analyzeData(d).numericColumns
      named == {i \in 1..Len(numericColumns) : includes(lowerQuery, numericColumns[i])}
      numericCol == IF named = {} THEN firstNumericColumn(d) ELSE numericColumns[SetMin(named)]
  IN IF hasSum(lowerQuery) /\ numericCol # <<>>
     THEN <<<<[k |-> <<"t","o","t","a","l","_">> \o numericCol, v |-> Num(columnSum(d, numericCol))]>>>>
     ELSE result

\* sumStep without the if (numericCol) guard
sumStepUnguarded(d, result, lowerQuery) ==
  LET numericCol == firstNumericColumn(d)
  IN IF hasSum(lowerQuery)
     THEN <<<<[k |-> <<"t","o","t","a","l","_">> \o interpolate(numericCol), v |-> Num(columnSum(d, numericCol))]>>>>
     ELSE result

\* if (sum || total) result = [{ total_<col>: sum }]
sumStep(d, result, lowerQuery) ==
  LET numericCol == firstNumericColumn(d)
  IN IF hasSum(lowerQuery) /\ numericCol # <<>>
     THEN <<<<[k |-> <<"t","o","t","a","l","_">> \o numericCol, v |-> Num(columnSum(d, numericCol))]>>>>
     ELSE result

\* the SQL representation, derived from the text again
synthesizeSql(d, lowerQuery) ==
  LET numericCol == interpolate(firstNumericColumn(d))
      select ==
        IF includes(lowerQuery, <<"c","o","u","n","t">>) \/ includes(lowerQuery, <<"g","r","o","u","p"," ","b","y">>)
        THEN <<"S","E","L","E","C","T"," ">> \o <<"*",","," ","C","O","U","N","T","(","*",")"," ","a","s"," ","c","o","u","n","t"," ","F","R","O","M"," ","d","a","t","a">>
        ELSE IF includes(lowerQuery, <<"a","v","e","r","a","g","e">>)
        THEN <<"S","E","L","E","C","T"," ">> \o <<"A","V","G","(">> \o numericCol \o <<")"," ","a","s"," ","a","v","e","r","a","g","e","_">> \o numericCol \o <<" ","F","R","O","M"," ","d","a","t","a">>
        ELSE IF includes(lowerQuery, <<"s","u","m">>)
        THEN <<"S","E","L","E","C","T"," ">> \o <<"S","U","M","(">> \o numericCol \o <<")"," ","a","s"," ","t","o","t","a","l","_">> \o numericCol \o <<" ","F","R","O","M"," ","d","a","t","a">>
        ELSE <<"S","E","L","E","C","T"," ">> \o <<"*"," ","F","R","O","M"," ","d","a","t","a">>
  IN IF hasHead(lowerQuery)
     THEN select \o <<" ","L","I","M","I","T"," ">> \o IntToString(headLimit(lowerQuery))
     ELSE select

\* the message of the exception row[column] throws in the callback of
\* result.filter or result.reduce when the result holds a null row
rowAccessError(result, column) ==
  IF \E i \in 1..Len(result) : result[i] = NullRow THEN CannotRead(column) ELSE <<>>

\* the exception of the where/filter step, <<>> when it completes
filterError(d, result, lowerQuery) ==
  LET column == namedColumn(d, lowerQuery)
  IN IF hasFilter(lowerQuery) /\ column # <<>> THEN rowAccessError(result, column) ELSE <<>>

\* the exception of the group by/count step, <<>> when it completes
groupError(d, result, lowerQuery) ==
  LET groupColumn == namedColumn(d, lowerQuery)
  IN IF hasGroup(lowerQuery) /\ groupColumn # <<>> THEN rowAccessError(result, groupColumn) ELSE <<>>

\* the exception of an aggregate step that fires: analyzeData(data) first, then
\* data.reduce over every row
aggregateError(d) ==
  IF analyzeDataError(d) # <<>> THEN analyzeDataError(d)
  ELSE IF firstNumericColumn(d) # <<>> THEN rowAccessError(d, firstNumericColumn(d))
  ELSE <<>>

\* the exception of the SQL representation: analyzeData(data) in the AVG and
\* SUM branches
synthesizeSqlError(d, lowerQuery) ==
  IF includes(lowerQuery, <<"c","o","u","n","t">>) \/ includes(lowerQuery, <<"g","r","o","u","p"," ","b","y">>) THEN <<>>
  ELSE IF includes(lowerQuery, <<"a","v","e","r","a","g","e">>) \/ includes(lowerQuery, <<"s","u","m">>) THEN analyzeDataError(d)
  ELSE <<>>

\* the dataset after a call that took the first rows with data.splice(limit),
\* which removes the other rows from the array it is called on
dataAfterSplice(d, q) ==
  IF hasHead(trim(toLowerCase(q))) THEN slice(d, 0, headLimit(trim(toLowerCase(q)))) ELSE d

\* the dataset after executeSimpleQuery(data, query): [...data], data.slice,
\* result.filter, reduce and Object.entries build new arrays and objects, and no
\* statement assigns to data, to an element of data or to a property of a row,
\* whichever steps run and whether or not an exception is caught
dataAfterQuery(d, q) == d

\* catch (error) returning the rows and the SQL of a failure with error.message
\* while keeping the SQL of a query without triggers
caughtKeepingSql(message) == [data |-> <<>>, sql |-> <<"S","E","L","E","C","T"," ","*"," ","F","R","O","M"," ","d","a","t","a">>, error |-> Str(message)]

\* catch (error) { return { data: [], sql: '', error: error.message } }
caught(message) == [data |-> <<>>, sql |-> <<>>, error |-> Str(message)]

executeSimpleQuery(d, q) ==
  LET lowerQuery == trim(toLowerCase(q))
      limited == tailStep(d, headStep(d, d, lowerQuery), lowerQuery)
      filtered == filterStep(d, limited, lowerQuery)
      grouped == groupStep(d, filtered, lowerQuery)
      aggregated == sumStep(d, averageStep(d, grouped, lowerQuery), lowerQuery)
  IN IF filterError(d, limited, lowerQuery) # <<>>
     THEN caught(filterError(d, limited, lowerQuery))
     ELSE IF groupError(d, filtered, lowerQuery) # <<>>
     THEN caught(groupError(d, filtered, lowerQuery))
     ELSE IF (hasAverage(lowerQuery) \/ hasSum(lowerQuery)) /\ aggregateError(d) # <<>>
     THEN caught(aggregateError(d))
     ELSE IF synthesizeSqlError(d, lowerQuery) # <<>>
     THEN caught(synthesizeSqlError(d, lowerQuery))
     ELSE [data |-> aggregated, sql |-> synthesizeSql(d, lowerQuery), error |-> Undefined]

----------------------------------------------------------------------------
(* generateSampleData *)

sampleRow(product_name, category, price, sales, region) ==
  <<[k |-> <<"p","r","o","d","u","c","t","_","n","a","m","e">>, v |-> Str(product_name)],
    [k |-> <<"c","a","t","e","g","o","r","y">>, v |-> Str(category)],
    [k |-> <<"p","r","i","c","e">>, v |-> Num(price)],
    [k |-> <<"s","a","l","e","s">>, v |-> Num(sales)],
    [k |-> <<"r","e","g","i","o","n">>, v |-> Str(region)]>>

generateSampleData ==
  <<
    sampleRow(<<"L","a","p","t","o","p">>, <<"E","l","e","c","t","r","o","n","i","c","s">>, 999, 50, <<"N","o","r","t","h">>),
    sampleRow(<<"M","o","u","s","e">>, <<"A","c","c","e","s","s","o","r","i","e","s">>, 25, 200, <<"S","o","u","t","h">>),
    sampleRow(<<"K","e","y","b","o","a","r","d">>, <<"A","c","c","e","s","s","o","r","i","e","s">>, 75, 150, <<"E","a","s","t">>),
    sampleRow(<<"M","o","n","i","t","o","r">>, <<"E","l","e","c","t","r","o","n","i","c","s">>, 299, 75, <<"W","e","s","t">>),
    sampleRow(<<"H","e","a","d","p","h","o","n","e","s">>, <<"A","u","d","i","o">>, 150, 120, <<"N","o","r","t","h">>),
    sampleRow(<<"L","a","p","t","o","p"," ","P","r","o">>, <<"E","l","e","c","t","r","o","n","i","c","s">>, 1299, 45, <<"S","o","u","t","h">>),
    sampleRow(<<"W","i","r","e","l","e","s","s"," ","M","o","u","s","e">>, <<"A","c","c","e","s","s","o","r","i","e","s">>, 35, 180, <<"E","a","s","t">>),
    sampleRow(<<"M","e","c","h","a","n","i","c","a","l"," ","K","e","y","b","o","a","r","d">>, <<"A","c","c","e","s","s","o","r","i","e","s">>, 125, 90, <<"W","e","s","t">>),
    sampleRow(<<"4","K"," ","M","o","n","i","t","o","r">>, <<"E","l","e","c","t","r","o","n","i","c","s">>, 450, 60, <<"N","o","r","t","h">>),
    sampleRow(<<"B","l","u","e","t","o","o","t","h"," ","H","e","a","d","p","h","o","n","e","s">>, <<"A","u","d","i","o">>, 200, 110, <<"S","o","u","t","h">>),
    sampleRow(<<"G","a","m","i","n","g"," ","L","a","p","t","o","p">>, <<"E","l","e","c","t","r","o","n","i","c","s">>, 1599, 30, <<"E","a","s","t">>),
    sampleRow(<<"U","S","B"," ","M","o","u","s","e">>, <<"A","c","c","e","s","s","o","r","i","e","s">>, 15, 250, <<"W","e","s","t">>),
    sampleRow(<<"E","r","g","o","n","o","m","i","c"," ","K","e","y","b","o","a","r","d">>, <<"A","c","c","e","s","s","o","r","i","e","s">>, 85, 140, <<"N","o","r","t","h">>),
    sampleRow(<<"U","l","t","r","a","w","i","d","e"," ","M","o","n","i","t","o","r">>, <<"E","l","e","c","t","r","o","n","i","c","s">>, 599, 40, <<"S","o","u","t","h">>),
    sampleRow(<<"N","o","i","s","e"," ","C","a","n","c","e","l","l","i","n","g"," ","H","e","a","d","p","h","o","n","e","s">>, <<"A","u","d","i","o">>, 299, 80, <<"E","a","s","t">>),
    sampleRow(<<"M","a","c","B","o","o","k">>, <<"E","l","e","c","t","r","o","n","i","c","s">>, 1499, 65, <<"W","e","s","t">>),
    sampleRow(<<"T","r","a","c","k","p","a","d">>, <<"A","c","c","e","s","s","o","r","i","e","s">>, 149, 70, <<"N","o","r","t","h">>),
    sampleRow(<<"W","i","r","e","l","e","s","s"," ","K","e","y","b","o","a","r","d">>, <<"A","c","c","e","s","s","o","r","i","e","s">>, 95, 130, <<"S","o","u","t","h">>),
    sampleRow(<<"G","a","m","i","n","g"," ","M","o","n","i","t","o","r">>, <<"E","l","e","c","t","r","o","n","i","c","s">>, 399, 85, <<"E","a","s","t">>),
    sampleRow(<<"E","a","r","b","u","d","s">>, <<"A","u","d","i","o">>, 99, 190, <<"W","e","s","t">>)
  >>

----------------------------------------------------------------------------
(* The inputs the core is called with *)

poolRow(item, price, sales) ==
  <<[k |-> <<"i","t","e","m">>, v |-> item], [k |-> <<"p","r","i","c","e">>, v |-> price], [k |-> <<"s","a","l","e","s">>, v |-> sales]>>

\* rows of uploaded files: a numeric string and a text in the price column, a
\* number and an empty cell in the sales column
RowPool ==
  {poolRow(Str(<<"I","t","e","m"," ","A">>), Str(<<"5">>), Num(7)),
   poolRow(Str(<<"p","e","n">>), Str(<<"n","/","a">>), Str(<<>>))}

RECURSIVE SeqsUpTo(_, _)
SeqsUpTo(S, n) ==
  IF n = 0 THEN {<<>>}
  ELSE LET shorter == SeqsUpTo(S, n - 1)
       IN shorter \cup {Append(t, x) : t \in {u \in shorter : Len(u) = n - 1}, x \in S}

\* every dataset of at most MaxRows pool rows (the empty one included), the
\* sample dataset and its first five rows
Datasets ==
  SeqsUpTo(RowPool, MaxRows) \cup {generateSampleData, SubSeq(generateSampleData, 1, 5)}

\* the phrases question texts are made of
Vocabulary ==
  {<<"S","h","o","w">>, <<"t","o","p"," ","1">>, <<"F","i","r","s","t">>, <<"l","a","s","t"," ","1">>, <<"l","a","s","t"," ","0">>, <<"w","h","e","r","e"," ","i","t","e","m">>,
   <<"c","o","u","n","t">>, <<"g","r","o","u","p"," ","b","y"," ","p","r","i","c","e">>, <<"a","v","e","r","a","g","e">>, <<"a","v","g">>, <<"s","u","m"," ","o","f"," ","s","a","l","e","s">>, <<"t","o","t","a","l">>}

RECURSIVE JoinPhrases(_)
JoinPhrases(ps) ==
  IF ps = <<>> THEN <<>>
  ELSE IF Len(ps) = 1 THEN ps[1]
  ELSE ps[1] \o <<" ">> \o JoinPhrases(Tail(ps))

Texts == {JoinPhrases(ps) : ps \in SeqsUpTo(Vocabulary, MaxPhrases)}

----------------------------------------------------------------------------
(* Calls of the core on any dataset and any question text *)

\* the dashboard holds a dataset with its statistics (handleDataLoad) and a
\* question text; no query has run
InitQuery ==
  /\ data \in Datasets
  /\ stats = analyzeData(data)
  /\ query \in Texts
  /\ queryResult = Null
  /\ InitSession

\* const result = executeSimpleQuery(data, query)
Execute ==
  /\ queryResult = Null
  /\ queryResult' = executeSimpleQuery(data, query)
  /\ data' = dataAfterQuery(data, query)
  /\ UNCHANGED <<query, stats, session>>

NextQuery == Execute

SpecQuery == InitQuery /\ [][NextQuery]_vars

----------------------------------------------------------------------------
(* Calls and repeated calls of the core on datasets that may hold null entries *)

\* a well-formed row and a null entry
MalformedPool == {poolRow(Str(<<"I","t","e","m"," ","A">>), Str(<<"5">>), Num(7)), NullRow}

MalformedDatasets == SeqsUpTo(MalformedPool, MaxRows)

\* the caller holds a dataset and a question text; analyzeData has not run
InitMalformed ==
  /\ data \in MalformedDatasets
  /\ stats = Null
  /\ query \in Texts
  /\ queryResult = Null
  /\ InitSession

\* a second call of executeSimpleQuery with the same dataset and text
ExecuteAgain ==
  /\ queryResult # Null
  /\ queryResult' = executeSimpleQuery(data, query)
  /\ data' = dataAfterQuery(data, query)
  /\ UNCHANGED <<query, stats, session>>

\* a call of analyzeData that returns: on a null entry it throws to its caller
AnalyzeReturning ==
  /\ stats = Null
  /\ analyzeDataError(data) = <<>>
  /\ stats' = analyzeData(data)
  /\ data' = dataAfterAnalyze(data)
  /\ UNCHANGED <<query, queryResult, session>>

\* a second call of analyzeData with the same dataset
AnalyzeAgain ==
  /\ stats # Null
  /\ stats' = analyzeData(data)
  /\ data' = dataAfterAnalyze(data)
  /\ UNCHANGED <<query, queryResult, session>>

NextMalformed ==
  \/ Execute
  \/ ExecuteAgain
  \/ AnalyzeReturning
  \/ AnalyzeAgain

SpecMalformed == InitMalformed /\ [][NextMalformed]_vars

----------------------------------------------------------------------------
(* Calls of analyzeData on columns of many rows *)

\* most runs of equal rows a column is made of
MaxRuns == 2

\* a numeric string, a text and an empty cell
CellPool == {Str(<<"1","2">>), Str(<<"n","/","a">>), Str(<<>>)}

\* the lengths of the runs: 4 + 1 is five rows, 100 rows fill the sample
RunLengths == {1, 4, 20, 100}

runRow(cell) == <<[k |-> <<"a","m","o","u","n","t">>, v |-> cell], [k |-> <<"d","a","y">>, v |-> Str(<<"2","0","2","4","-","0","1","-","1","5">>)]>>

RECURSIVE ExpandRuns(_)
ExpandRuns(runs) ==
  IF runs = <<>> THEN <<>>
  ELSE [i \in 1..runs[1][2] |-> runRow(runs[1][1])] \o ExpandRuns(Tail(runs))

ColumnDatasets == {ExpandRuns(runs) : runs \in SeqsUpTo(CellPool \X RunLengths, MaxRuns)}

\* the columns of runs, and the sample dataset with its number cells
InitAnalyze ==
  /\ data \in ColumnDatasets \cup {generateSampleData, SubSeq(generateSampleData, 1, 5)}
  /\ query = <<>>
  /\ queryResult = Null
  /\ stats = Null
  /\ InitSession

\* setStats(analyzeData(newData))
Analyze ==
  /\ stats = Null
  /\ stats' = analyzeData(data)
  /\ data' = dataAfterAnalyze(data)
  /\ UNCHANGED <<query, queryResult, session>>

NextAnalyze == Analyze

SpecAnalyze == InitAnalyze /\ [][NextAnalyze]_vars

----------------------------------------------------------------------------
(* Aggregate queries on a column with cells that are no number *)

\* the cells of the column: a number, a numeric string, a text, null and the
\* empty string
AggregateCells == {Num(3), Str(<<"1","2">>), Str(<<"n","/","a">>), Null, Str(<<>>)}

\* the lengths of the runs: five numbers and one text are a numeric column
AggregateRunLengths == {1, 5}

AggregateDatasets ==
  {ExpandRuns(runs) : runs \in SeqsUpTo(AggregateCells \X AggregateRunLengths, MaxRuns)}

\* question texts with an aggregate trigger, two of them example queries
AggregateTexts ==
  {<<"W","h","a","t"," ","i","s"," ","t","h","e"," ","a","v","e","r","a","g","e"," ","s","a","l","e","s"," ","b","y"," ","r","e","g","i","o","n","?">>, <<"S","u","m"," ","t","h","e"," ","t","o","t","a","l"," ","s","a","l","e","s">>, <<"a","v","g"," ","o","f"," ","t","h","e"," ","l","a","s","t"," ","1">>}

InitAggregate ==
  /\ data \in AggregateDatasets
  /\ stats = analyzeData(data)
  /\ query \in AggregateTexts
  /\ queryResult = Null
  /\ InitSession

NextAggregate == Execute

SpecAggregate == InitAggregate /\ [][NextAggregate]_vars

----------------------------------------------------------------------------
(* The dashboard: DataDashboard with its FileUpload, QueryInterface and
   QueryHistory children *)

\* most entries of the query history
MaxHistory == 2

\* the values Date.now() returns, in milliseconds
Times == {1, 2}

\* the files a user uploads, as parseCSV or parseJSON reads them: a file with
\* no row, a file with one row, and a file the parser rejects
Files ==
  {[name |-> <<"e","m","p","t","y",".","c","s","v">>, failed |-> FALSE, rows |-> <<>>],
   [name |-> <<"i","t","e","m","s",".","j","s","o","n">>, failed |-> FALSE, rows |-> <<poolRow(Str(<<"I","t","e","m"," ","A">>), Str(<<"5">>), Num(7))>>],
   [name |-> <<"b","r","o","k","e","n",".","c","s","v">>, failed |-> TRUE, rows |-> <<>>]}

\* the texts typed into the question input: the empty one, a blank one, an
\* example query and a short one
TypedTexts == {<<>>, <<" "," ">>, <<"S","h","o","w"," ","t","h","e"," ","f","i","r","s","t"," ","5"," ","p","r","o","d","u","c","t","s">>, <<"a","v","g">>}

InitDashboard ==
  /\ data = <<>>
  /\ stats = Null
  /\ queryResult = Null
  /\ query = <<>>
  /\ InitSession

\* handleDataLoad(newData, newFilename)
handleDataLoad(newData, newFilename) ==
  /\ data' = newData
  /\ filename' = newFilename
  /\ stats' = analyzeData(newData)
  /\ queryResult' = Null
  /\ selectedTab' = 0

\* useEffect(() => handleDataLoad(generateSampleData(), ...), [])
Mount ==
  /\ ~mounted
  /\ mounted' = TRUE
  /\ handleDataLoad(generateSampleData, <<"s","a","m","p","l","e","-","e","c","o","m","m","e","r","c","e","-","d","a","t","a",".","c","s","v">>)
  /\ UNCHANGED <<query, queryHistory, isLoadingFile, isLoadingQuery, upload>>

\* handleLoadSampleData, the button of the upload tab
LoadSampleData ==
  /\ mounted /\ selectedTab = 0
  /\ handleDataLoad(generateSampleData, <<"s","a","m","p","l","e","-","e","c","o","m","m","e","r","c","e","-","d","a","t","a",".","c","s","v">>)
  /\ UNCHANGED <<query, queryHistory, isLoadingFile, isLoadingQuery, mounted, upload>>

\* handleFileUpload up to its await: setIsLoading(true), the parser starts
StartUpload ==
  /\ mounted /\ selectedTab = 0
  /\ ~isLoadingFile
  /\ \E file \in Files : upload' = file
  /\ isLoadingFile' = TRUE
  /\ UNCHANGED <<data, query, queryResult, stats, filename, queryHistory, isLoadingQuery,
                 selectedTab, mounted>>

\* an upload that never replaces the dataset
isEmptyUploadNever(rows) == FALSE

\* if (data.length === 0)
isEmptyUpload(rows) == Len(rows) = 0

\* handleFileUpload after its await: a rejected parse and an empty file only
\* reset the loading flag, any other file is loaded
FinishUpload ==
  /\ upload # Null
  /\ upload' = Null
  /\ isLoadingFile' = FALSE
  /\ IF upload.failed \/ isEmptyUpload(upload.rows)
     THEN UNCHANGED <<data, filename, stats, queryResult, selectedTab>>
     ELSE handleDataLoad(upload.rows, upload.name)
  /\ UNCHANGED <<query, queryHistory, isLoadingQuery, mounted>>

\* <Tab disabled={...}>
tabDisabled(tab) ==
  CASE tab = 1 -> Len(data) = 0
    [] tab = 2 -> queryResult = Null
    [] tab = 3 -> Len(queryHistory) = 0
    [] OTHER -> FALSE

\* <Tabs onChange={(e) => setSelectedTab(e.selectedIndex)}>
SelectTab ==
  /\ mounted
  /\ \E tab \in 0..3 : ~tabDisabled(tab) /\ selectedTab' = tab
  /\ UNCHANGED <<data, query, queryResult, stats, filename, queryHistory, isLoadingFile,
                 isLoadingQuery, mounted, upload>>

\* the "Start Asking Questions" button of the upload tab
StartAsking ==
  /\ mounted /\ selectedTab = 0
  /\ Len(data) > 0
  /\ selectedTab' = 1
  /\ UNCHANGED <<data, query, queryResult, stats, filename, queryHistory, isLoadingFile,
                 isLoadingQuery, mounted, upload>>

\* onChange={(e) => setQuery(e.target.value)} of the question input
SetQuery ==
  /\ mounted /\ selectedTab = 1
  /\ ~(isLoadingQuery \/ Len(data) = 0)
  /\ \E text \in TypedTexts : query' = text
  /\ UNCHANGED <<data, queryResult, stats, session>>

\* the first piece of s.split(separator)
splitFirst(s, separator) ==
  LET hits == {i \in 1..Len(s) : OccursAt(s, separator, i)}
  IN IF hits = {} THEN s ELSE SubSeq(s, 1, SetMin(hits) - 1)

\* result.sql ? result.sql.split('SELECT')[0] || 'Query' : 'Unknown Query'
historyQuery(sql) ==
  IF sql = <<>> THEN <<"U","n","k","n","o","w","n"," ","Q","u","e","r","y">>
  ELSE IF splitFirst(sql, <<"S","E","L","E","C","T">>) = <<>> THEN <<"Q","u","e","r","y">>
  ELSE splitFirst(sql, <<"S","E","L","E","C","T">>)

\* the QueryHistoryItem of a result at the time now
historyItem(result, now) ==
  [id |-> NatToString(now), query |-> historyQuery(result.sql), sql |-> result.sql,
   timestamp |-> now, resultCount |-> Len(result.data), error |-> result.error]

\* handleQueryResult(result)
handleQueryResult(result) ==
  /\ queryResult' = result
  /\ \E now \in Times : queryHistory' = Append(queryHistory, historyItem(result, now))
  /\ selectedTab' = 2

\* the guard of handleSubmitQuery without the test of the dataset
canSubmitAnyData(text, d, isLoading) == trim(text) # <<>> /\ ~isLoading

\* !(!query.trim() || data.length === 0 || isLoading)
canSubmit(text, d, isLoading) == trim(text) # <<>> /\ Len(d) # 0 /\ ~isLoading

\* handleSubmitQuery: the Ask button or the Enter key of the question input;
\* setIsLoading(true) and setIsLoading(false) are in one synchronous handler
SubmitQuery ==
  /\ mounted /\ selectedTab = 1
  /\ Len(queryHistory) < MaxHistory
  /\ IF canSubmit(query, data, isLoadingQuery)
     THEN /\ handleQueryResult(executeSimpleQuery(data, query))
          /\ isLoadingQuery' = FALSE
          /\ UNCHANGED <<data, query, stats, filename, isLoadingFile, mounted, upload>>
     ELSE UNCHANGED vars

\* handleClearHistory, the "Clear All" button of the history tab
ClearHistory ==
  /\ mounted /\ selectedTab = 3
  /\ Len(queryHistory) # 0
  /\ queryHistory' = <<>>
  /\ UNCHANGED <<data, query, queryResult, stats, filename, isLoadingFile, isLoadingQuery,
                 selectedTab, mounted, upload>>

\* handleRerunQuery(item.query), the "Run Again" button of a history entry
RerunQuery ==
  /\ mounted /\ selectedTab = 3
  /\ Len(queryHistory) # 0
  /\ selectedTab' = 1
  /\ UNCHANGED <<data, query, queryResult, stats, filename, queryHistory, isLoadingFile,
                 isLoadingQuery, mounted, upload>>

\* handleExportHistory, the "Export" button of the history tab: a download
ExportHistory ==
  /\ mounted /\ selectedTab = 3
  /\ Len(queryHistory) # 0
  /\ UNCHANGED vars

\* handleExportResults, the "Export Results" button of the results tab: a download
ExportResults ==
  /\ mounted /\ selectedTab = 2
  /\ queryResult # Null /\ Len(queryResult.data) > 0
  /\ UNCHANGED vars

NextDashboard ==
  \/ Mount
  \/ LoadSampleData
  \/ StartUpload
  \/ FinishUpload
  \/ SelectTab
  \/ StartAsking
  \/ SetQuery
  \/ SubmitQuery
  \/ ClearHistory
  \/ RerunQuery
  \/ ExportHistory
  \/ ExportResults

SpecDashboard == InitDashboard /\ [][NextDashboard]_vars

----------------------------------------------------------------------------
(* What the claims speak of *)

Called == queryResult # Null

\* the normalized text of the call
Normalized == trim(toLowerCase(query))

Least(a, b) == IF a < b THEN a ELSE b

\* the first n rows and the last n rows of a dataset, in order
FirstRows(d, n) == SubSeq(d, 1, Least(n, Len(d)))
LastRows(d, n) == SubSeq(d, Len(d) - Least(n, Len(d)) + 1, Len(d))

EndsWith(s, suffix) == Len(suffix) <= Len(s) /\ SubSeq(s, Len(s) - Len(suffix) + 1, Len(s)) = suffix
StartsWith(s, prefix) == Len(prefix) <= Len(s) /\ SubSeq(s, 1, Len(prefix)) = prefix

InSeq(x, s) == \E i \in 1..Len(s) : s[i] = x

\* which triggers occur in a normalized text
TriggersOf(text) ==
  (IF hasHead(text) THEN {"head"} ELSE {})
    \cup (IF hasTail(text) THEN {"tail"} ELSE {})
    \cup (IF hasFilter(text) THEN {"filter"} ELSE {})
    \cup (IF hasGroup(text) THEN {"group"} ELSE {})
    \cup (IF hasAverage(text) THEN {"average"} ELSE {})
    \cup (IF hasSum(text) THEN {"sum"} ELSE {})

\* the number written after the keyword that the limit pattern matches first,
\* 10 when the pattern matches nowhere
WrittenLimit(text, keywords) ==
  LET digits == limitMatch(text, keywords)
  IN IF digits = <<>> THEN 10 ELSE parseInt(digits)

\* the sum of a column with the cells that are no number counted as 0
RECURSIVE ExactSum(_, _, _)
ExactSum(d, column, n) ==
  IF n = 0 THEN 0
  ELSE LET number == Number(Get(d[n], column))
       IN ExactSum(d, column, n - 1) + (IF number.nan THEN 0 ELSE number.n)

\* a result of exactly one row with the single key and value given
IsSingleRow(rows, key, value) == rows = <<<<[k |-> key, v |-> value]>>>>

----------------------------------------------------------------------------
\* C1: on a non-empty dataset, with a head trigger (count h) and "last" (count
\* t) and no other trigger, the returned rows are the last t rows of the first h
\* rows of the dataset (stated for t >= 1, where the tail limit itself returns
\* the last t rows).
C1_TailOfHead ==
  Called /\ data # <<>>
    => LET text == Normalized
           h == WrittenLimit(text, {<<"t","o","p">>, <<"f","i","r","s","t">>})
           t == WrittenLimit(text, {<<"l","a","s","t">>})
       IN TriggersOf(text) = {"head", "tail"} /\ t >= 1
            => queryResult.data = LastRows(FirstRows(data, h), t)

\* C2: with top/first as the only trigger the rows are the first min(n, rows)
\* rows in order and the SQL ends in "LIMIT n" for the same n, n being the digits
\* after the keyword, or 10 when none follow.
C2_HeadLimit ==
  Called
    => LET text == Normalized
           n == WrittenLimit(text, {<<"t","o","p">>, <<"f","i","r","s","t">>})
       IN TriggersOf(text) = {"head"}
            => /\ queryResult.data = FirstRows(data, n)
               /\ EndsWith(queryResult.sql, <<"L","I","M","I","T"," ">> \o NatToString(n))

\* "top 1" takes the first of two rows; "First" takes ten of the twenty sample rows
C2_Witness ==
  /\ Called
  /\ \/ /\ query = <<"S","h","o","w"," ","t","o","p"," ","1">> /\ Len(data) = 2
        /\ queryResult.data = <<data[1]>>
        /\ queryResult.sql = <<"S","E","L","E","C","T"," ","*"," ","F","R","O","M"," ","d","a","t","a"," ","L","I","M","I","T"," ","1">>
     \/ /\ query = <<"F","i","r","s","t">> /\ data = generateSampleData
        /\ queryResult.data = SubSeq(data, 1, 10)
        /\ queryResult.sql = <<"S","E","L","E","C","T"," ","*"," ","F","R","O","M"," ","d","a","t","a"," ","L","I","M","I","T"," ","1","0">>

\* C3: on a non-empty dataset, with "last" as the only trigger and count n (any
\* n >= 0, 10 without digits) the rows are the final min(n, rows) rows in order.
C3_TailLimit ==
  Called /\ data # <<>>
    => LET text == Normalized
       IN TriggersOf(text) = {"tail"}
            => queryResult.data = LastRows(data, WrittenLimit(text, {<<"l","a","s","t">>}))

\* C4 (as claimed): "sum of sales" on a dataset with a numeric column sales
\* returns one row {total_sales: exact sum of sales}.
C4_TotalSales ==
  Called /\ Normalized = <<"s","u","m"," ","o","f"," ","s","a","l","e","s">> /\ InSeq(<<"s","a","l","e","s">>, stats.numericColumns)
    => IsSingleRow(queryResult.data, <<"t","o","t","a","l","_","s","a","l","e","s">>,
                   Num(ExactSum(data, <<"s","a","l","e","s">>, Len(data))))

\* C4 (amended): "sum of sales" on a dataset with a numeric column returns one
\* row {total_c: exact sum of c} for the first numeric column c in
\* classification order, whatever column the text names.
C4_TotalOfFirstNumeric ==
  Called /\ Normalized = <<"s","u","m"," ","o","f"," ","s","a","l","e","s">> /\ stats.numericColumns # <<>>
    => LET c == stats.numericColumns[1]
       IN IsSingleRow(queryResult.data, <<"t","o","t","a","l","_">> \o c, Num(ExactSum(data, c, Len(data))))

\* on the sample dataset, where sales is numeric, "sum of sales" yields the sum
\* of price
C4_Witness ==
  /\ Called /\ query = <<"s","u","m"," ","o","f"," ","s","a","l","e","s">> /\ data = generateSampleData
  /\ InSeq(<<"s","a","l","e","s">>, stats.numericColumns)
  /\ IsSingleRow(queryResult.data, <<"t","o","t","a","l","_","p","r","i","c","e">>, Num(8495))

\* whether text is digits, a point and two digits, and is the multiple of 0.01
\* nearest to sum / count (sum >= 0)
IsTwoDecimalMean(text, sum, count) ==
  /\ Len(text) >= 4
  /\ text[Len(text) - 2] = "."
  /\ \A i \in (1..Len(text)) \ {Len(text) - 2} : IsDigit(text[i])
  /\ LET hundredths == parseInt(SubSeq(text, 1, Len(text) - 3)) * 100
                         + parseInt(SubSeq(text, Len(text) - 1, Len(text)))
     IN /\ 2 * count * hundredths - count <= 200 * sum
        /\ 200 * sum <= 2 * count * hundredths + count

\* C5: with "average" or "avg" and no sum/total trigger, on a dataset with a
\* numeric column, the result is the one row {average_c: mean of c over all rows
\* of the dataset as 2-decimal text}, c the first numeric column, whatever limit,
\* filter or group step ran before.
C5_AverageOfAll ==
  Called /\ stats.numericColumns # <<>>
    => LET triggers == TriggersOf(Normalized)
           c == stats.numericColumns[1]
           rows == queryResult.data
       IN "average" \in triggers /\ "sum" \notin triggers
            => /\ Len(rows) = 1 /\ Len(rows[1]) = 1
               /\ rows[1][1].k = <<"a","v","e","r","a","g","e","_">> \o c
               /\ rows[1][1].v.k = "str"
               /\ IsTwoDecimalMean(rows[1][1].v.s, ExactSum(data, c, Len(data)), Len(data))

\* prices 999, 25, 75, 299, 150 average to "309.60", also after a head limit
C5_Witness ==
  /\ Called /\ query = <<"t","o","p"," ","1"," ","a","v","e","r","a","g","e">> /\ data = SubSeq(generateSampleData, 1, 5)
  /\ IsSingleRow(queryResult.data, <<"a","v","e","r","a","g","e","_","p","r","i","c","e">>, Str(<<"3","0","9",".","6","0">>))

\* the rows the group step receives: the dataset after the limit and filter steps
CurrentRows(text) == filterStep(data, tailStep(data, headStep(data, data, text), text), text)

RECURSIVE SumOfCounts(_)
SumOfCounts(rows) ==
  IF rows = <<>> THEN 0 ELSE rows[1][2].v.n + SumOfCounts(Tail(rows))

PresentAmong(d, column, n) ==
  {i \in 1..Least(n, Len(d)) :
     /\ Get(d[i], column).k \notin {"null", "undefined"}
     /\ Get(d[i], column).k = "str" => Get(d[i], column).s # <<>>}

\* the rows holding the first n non-empty values of the column
FirstPresent(d, column, n) ==
  LET present == PresentAmong(d, column, Len(d))
  IN {i \in present : Cardinality({j \in present : j < i}) < n}

NumericAmong(d, column, rows) == {i \in rows : ~Number(Get(d[i], column)).nan}

\* C7 (as claimed): a column is in numericColumns whenever at least 80% of its
\* first 100 non-empty values parse as numbers.
C7_AtLeast80 ==
  stats # Null /\ data # <<>>
    => \A c \in {data[1][i].k : i \in 1..Len(data[1])} :
         LET rows == FirstPresent(data, c, 100)
         IN rows # {} /\ Cardinality(NumericAmong(data, c, rows)) * 10 >= Cardinality(rows) * 8
              => InSeq(c, stats.numericColumns)

\* C7 (amended): a column is in numericColumns whenever more than 80% of the
\* non-empty values in its first 100 rows parse as numbers.
C7_MoreThan80 ==
  stats # Null /\ data # <<>>
    => \A c \in {data[1][i].k : i \in 1..Len(data[1])} :
         LET rows == PresentAmong(data, c, 100)
         IN Cardinality(NumericAmong(data, c, rows)) * 10 > Cardinality(rows) * 8
              => InSeq(c, stats.numericColumns)

\* 101 rows whose first 100 hold one text among 99 numeric strings
C7_Witness ==
  /\ stats # Null /\ Len(data) = 101
  /\ \E i \in 1..100 : Get(data[i], <<"a","m","o","u","n","t">>) = Str(<<"n","/","a">>)
  /\ Cardinality(NumericAmong(data, <<"a","m","o","u","n","t">>, 1..100)) = 99
  /\ InSeq(<<"a","m","o","u","n","t">>, stats.numericColumns)

\* the forms of the synthesized string
IsCountForm(sql) == StartsWith(sql, <<"S","E","L","E","C","T"," ","*",","," ","C","O","U","N","T","(","*",")"," ","a","s"," ","c","o","u","n","t"," ","F","R","O","M"," ","d","a","t","a">>)
IsAvgForm(sql) == StartsWith(sql, <<"S","E","L","E","C","T"," ","A","V","G","(">>)
IsSumForm(sql) == StartsWith(sql, <<"S","E","L","E","C","T"," ","S","U","M","(">>)
IsPlainForm(sql) == StartsWith(sql, <<"S","E","L","E","C","T"," ","*"," ","F","R","O","M"," ","d","a","t","a">>)

\* the step of the cascade whose output the call returns
ProducedBy(text, triggers) ==
  IF "sum" \in triggers /\ stats.numericColumns # <<>> THEN "sum"
  ELSE IF "average" \in triggers /\ stats.numericColumns # <<>> THEN "average"
  ELSE IF "group" \in triggers /\ namedColumn(data, text) # <<>> THEN "group"
  ELSE "rows"

\* C8: on a non-empty dataset and without a filter trigger the synthesized
\* string names the operation that produced the rows: COUNT form iff grouped
\* counts, AVG form iff the average row, SUM form iff the total row, SELECT * iff
\* source rows, and source rows under a LIMIT n suffix are the first n rows.
C8_SqlDescribesRows ==
  Called /\ data # <<>>
    => LET text == Normalized
           triggers == TriggersOf(text)
           step == ProducedBy(text, triggers)
           sql == queryResult.sql
       IN "filter" \notin triggers
            => /\ IsCountForm(sql) <=> step = "group"
               /\ IsAvgForm(sql) <=> step = "average"
               /\ IsSumForm(sql) <=> step = "sum"
               /\ IsPlainForm(sql) <=> step = "rows"
               /\ \A n \in 0..10 :
                    EndsWith(sql, <<" ","L","I","M","I","T"," ">> \o NatToString(n)) /\ step = "rows"
                      => queryResult.data = FirstRows(data, n)

\* C9: on a non-empty dataset, in a text without "count"/"group by", the
\* synthesized string is the AVG form whenever the text contains "average" or
\* "avg", and otherwise the SUM form whenever it contains "sum" or "total".
C9_SameTriggers ==
  Called /\ data # <<>>
    => LET text == Normalized
           sql == queryResult.sql
       IN ~includes(text, <<"c","o","u","n","t">>) /\ ~includes(text, <<"g","r","o","u","p"," ","b","y">>)
            => /\ hasAverage(text) => IsAvgForm(sql)
               /\ ~hasAverage(text) /\ hasSum(text) => IsSumForm(sql)

\* C10: on the empty dataset every question text yields a result with no rows
\* and no error.
C10_EmptyDataset ==
  Called /\ data = <<>> => queryResult.data = <<>> /\ queryResult.error = Undefined

\* the empty dataset queried with a text that fires the filter and sum triggers
C10_Witness ==
  /\ Called /\ data = <<>> /\ query = <<"w","h","e","r","e"," ","i","t","e","m"," ","s","u","m"," ","o","f"," ","s","a","l","e","s">>
  /\ queryResult.data = <<>>

----------------------------------------------------------------------------
\* whether a dataset holds a null entry
HasNullRow(d) == \E i \in 1..Len(d) : d[i] = NullRow

\* C11: every call of executeSimpleQuery, on datasets with null entries too,
\* returns a QueryResult: rows, a synthesized string and either no error or an
\* error message; a result with an error message has no rows and the empty
\* string, and a result with rows or a string has no error.
C11_ErrorResult ==
  Called =>
    /\ DOMAIN queryResult = {"data", "sql", "error"}
    /\ queryResult.error.k \in {"undefined", "str"}
    /\ queryResult.error.k = "str" => queryResult.data = <<>> /\ queryResult.sql = <<>>
    /\ (queryResult.data # <<>> \/ queryResult.sql # <<>>) => queryResult.error = Undefined

\* a filter over a dataset with a null entry was caught
C11_Witness ==
  /\ Called
  /\ HasNullRow(data)
  /\ hasFilter(Normalized)
  /\ queryResult.error = Str(CannotRead(<<"i","t","e","m">>))
  /\ queryResult.data = <<>>
  /\ queryResult.sql = <<>>

----------------------------------------------------------------------------
\* the entry a step appends to the history
Appended == queryHistory'[Len(queryHistory')]

\* a step that appends to the history: handleSubmitQuery has called
\* executeSimpleQuery and handed the result to handleQueryResult
Submits == Len(queryHistory') > Len(queryHistory)

\* C12: the query history is append-only: whatever the step (a submission, a
\* dataset load, an export, a history clear), the history after the step begins
\* with the history before it, so that its length never decreases and no entry
\* is removed, reordered or changed.
C12_AppendOnly ==
  [][/\ Len(queryHistory') >= Len(queryHistory)
     /\ SubSeq(queryHistory', 1, Len(queryHistory)) = queryHistory]_vars

\* C13: the entry appended by a query submission records the question text the
\* user submitted, and the synthesized string, the number of rows and the error
\* of that submission's result.
C13_RecordsQuestion ==
  [][Submits =>
       /\ Appended.query = query
       /\ Appended.sql = queryResult'.sql
       /\ Appended.resultCount = Len(queryResult'.data)
       /\ Appended.error = queryResult'.error]_vars

\* C14: the completion of an upload that parsed to zero rows leaves the session
\* dataset as it was, the dataset is never empty once the sample data is
\* loaded, and a step that invokes executeSimpleQuery starts from a non-empty
\* dataset, no query loading and a question that is not blank.
C14_EmptyRejectedUpstream ==
  [][/\ (isLoadingFile /\ ~isLoadingFile' /\ ~upload.failed /\ upload.rows = <<>>) => data' = data
     /\ mounted' => data' # <<>>
     /\ Submits => data # <<>> /\ ~isLoadingQuery /\ trim(query) # <<>>]_vars

\* a query has run on the sample dataset and the upload of a file without rows
\* is being parsed
C14_Witness ==
  /\ isLoadingFile
  /\ upload # Null /\ ~upload.failed /\ upload.rows = <<>>
  /\ queryHistory # <<>>
  /\ data = generateSampleData

----------------------------------------------------------------------------
----------------------------------------------------------------------------
\* the substrings that fire a signal
SignalWords ==
  {<<"t","o","p">>, <<"f","i","r","s","t">>, <<"l","a","s","t">>, <<"w","h","e","r","e">>, <<"f","i","l","t","e","r">>, <<"g","r","o","u","p"," ","b","y">>, <<"c","o","u","n","t">>,
   <<"a","v","e","r","a","g","e">>, <<"a","v","g">>, <<"s","u","m">>, <<"t","o","t","a","l">>}

\* C17: when none of the signal words occurs in the normalized text, the result
\* is every row of the dataset, unchanged and in the original order, with the
\* string "SELECT * FROM data" and no error.
C17_NoSignal ==
  Called /\ (\A word \in SignalWords : ~includes(Normalized, word))
    => /\ queryResult.data = data
       /\ queryResult.sql = <<"S","E","L","E","C","T"," ","*"," ","F","R","O","M"," ","d","a","t","a">>
       /\ queryResult.error = Undefined

\* "Show" on the sample dataset returns its twenty rows
C17_Witness ==
  /\ Called /\ query = <<"S","h","o","w">> /\ data = generateSampleData
  /\ Len(queryResult.data) = 20
  /\ queryResult.sql = <<"S","E","L","E","C","T"," ","*"," ","F","R","O","M"," ","d","a","t","a">>

\* the rows the filter step receives: the dataset after the head and tail limits
LimitedRows(text) == tailStep(data, headStep(data, data, text), text)

\* C19: with "where" or "filter" and no group or aggregate trigger, the result is
\* the limited rows whose lower-cased cell text in g contains the name g, g the
\* first key of the first row that occurs in the text, and the limited rows as
\* they are when no key occurs in the text.
C19_FilterCurrent ==
  Called
    => LET text == Normalized
           keys == IF data = <<>> THEN <<>> ELSE ObjectKeys(data[1])
           named == {i \in 1..Len(keys) : includes(text, keys[i])}
           limited == LimitedRows(text)
           rows == queryResult.data
       IN (includes(text, <<"w","h","e","r","e">>) \/ includes(text, <<"f","i","l","t","e","r">>))
            /\ TriggersOf(text) \cap {"group", "average", "sum"} = {}
            => IF named = {} THEN rows = limited
               ELSE LET g == keys[SetMin(named)]
                        kept == {i \in 1..Len(limited) :
                                   includes(toLowerCase(String(Get(limited[i], g))), g)}
                    IN /\ Len(rows) = Cardinality(kept)
                       /\ \A n \in 1..Len(rows) :
                            rows[n] = limited[CHOOSE i \in kept :
                                                Cardinality({j \in kept : j < i}) = n - 1]

\* of a pen and an "Item A", "last 1 where item" limits to the item and keeps it
C19_Witness ==
  /\ Called /\ query = <<"l","a","s","t"," ","1"," ","w","h","e","r","e"," ","i","t","e","m">> /\ Len(data) = 2
  /\ Get(data[1], <<"i","t","e","m">>) = Str(<<"p","e","n">>)
  /\ Get(data[2], <<"i","t","e","m">>) = Str(<<"I","t","e","m"," ","A">>)
  /\ queryResult.data = <<data[2]>>

\* C20: when an average or sum trigger fires on a dataset whose classification
\* has no numeric column, no aggregate row is produced: the rows are those of
\* the limit, filter and group steps.
C20_AggregateSkipped ==
  Called /\ stats.numericColumns = <<>>
    => LET text == Normalized
       IN (hasAverage(text) \/ hasSum(text))
            => /\ queryResult.data = groupStep(data, CurrentRows(text), text)
               /\ queryResult.error = Undefined

\* two pens have no numeric column: "top 1 avg" returns the first pen
C20_Witness ==
  /\ Called /\ query = <<"t","o","p"," ","1"," ","a","v","g">> /\ Len(data) = 2
  /\ stats.numericColumns = <<>>
  /\ queryResult.data = <<data[1]>>

----------------------------------------------------------------------------
\* a cell that does not parse as a number: null, the empty string, or a text
\* that is no number
IsUnparsed(v) ==
  \/ v.k \in {"null", "undefined"}
  \/ v.k = "str" /\ (v.s = <<>> \/ Number(v).nan)

\* the sum of the cells of a column that parse as numbers, over the first n rows
RECURSIVE ParsedSum(_, _, _)
ParsedSum(d, column, n) ==
  IF n = 0 THEN 0
  ELSE ParsedSum(d, column, n - 1)
       + (IF IsUnparsed(Get(d[n], column)) THEN 0 ELSE Number(Get(d[n], column)).n)

\* C18: when the sum or average step runs on a numeric column c in which some
\* row's cell does not parse as a number, there is no error, the sum is that of
\* the cells that parse (the others contribute 0), and the average divides it
\* by the number of all rows.
C18_UnparsedCountsZero ==
  Called /\ stats.numericColumns # <<>>
    => LET text == Normalized
           c == stats.numericColumns[1]
           rows == queryResult.data
           parsed == ParsedSum(data, c, Len(data))
       IN (\E i \in 1..Len(data) : IsUnparsed(Get(data[i], c)))
            => /\ queryResult.error = Undefined
               /\ hasSum(text) => IsSingleRow(rows, <<"t","o","t","a","l","_">> \o c, Num(parsed))
               /\ hasAverage(text) /\ ~hasSum(text)
                    => /\ Len(rows) = 1 /\ Len(rows[1]) = 1
                       /\ rows[1][1].k = <<"a","v","e","r","a","g","e","_">> \o c
                       /\ rows[1][1].v.k = "str"
                       /\ IsTwoDecimalMean(rows[1][1].v.s, parsed, Len(data))

\* five cells "12" and one "n/a" average to 60 / 6
C18_Witness ==
  /\ Called /\ Len(data) = 6
  /\ Get(data[6], <<"a","m","o","u","n","t">>) = Str(<<"n","/","a">>)
  /\ \A i \in 1..5 : Get(data[i], <<"a","m","o","u","n","t">>) = Str(<<"1","2">>)
  /\ query = <<"a","v","g"," ","o","f"," ","t","h","e"," ","l","a","s","t"," ","1">>
  /\ IsSingleRow(queryResult.data, <<"a","v","e","r","a","g","e","_","a","m","o","u","n","t">>, Str(<<"1","0",".","0","0">>))

----------------------------------------------------------------------------
\* the set of the elements of a sequence
Elements(s) == {s[i] : i \in 1..Len(s)}

\* C21: for a non-empty dataset the three lists of analyzeData hold each key of
\* the first row exactly once: they have no repeated name, are pairwise
\* disjoint and together are the first row's keys; a column over both the
\* numeric and the date threshold is numeric only; totalColumns is the sum of
\* the three sizes and totalRows the number of rows.
C21_Partition ==
  stats # Null /\ data # <<>>
    => LET numeric == stats.numericColumns
           date == stats.dateColumns
           text == stats.textColumns
       IN /\ Cardinality(Elements(numeric)) = Len(numeric)
          /\ Cardinality(Elements(date)) = Len(date)
          /\ Cardinality(Elements(text)) = Len(text)
          /\ Elements(numeric) \cap Elements(date) = {}
          /\ Elements(numeric) \cap Elements(text) = {}
          /\ Elements(date) \cap Elements(text) = {}
          /\ Elements(numeric) \cup Elements(date) \cup Elements(text)
               = {data[1][i].k : i \in 1..Len(data[1])}
          /\ stats.totalColumns = Len(numeric) + Len(date) + Len(text)
          /\ stats.totalRows = Len(data)
          /\ \A c \in {data[1][i].k : i \in 1..Len(data[1])} :
               LET rows == PresentAmong(data, c, 100)
                   dates == {i \in rows : IsValidDate(Get(data[i], c))}
               IN /\ Cardinality(NumericAmong(data, c, rows)) * 10 > Cardinality(rows) * 8
                  /\ Cardinality(dates) * 10 > Cardinality(rows) * 8
                  => c \in Elements(numeric) /\ c \notin Elements(date)

\* the sample dataset: price and sales, numbers that are also time values, are
\* numeric, the three other columns text
C21_Witness ==
  /\ stats # Null /\ data = generateSampleData
  /\ stats.numericColumns = <<<<"p","r","i","c","e">>, <<"s","a","l","e","s">>>>
  /\ stats.textColumns = <<<<"p","r","o","d","u","c","t","_","n","a","m","e">>, <<"c","a","t","e","g","o","r","y">>, <<"r","e","g","i","o","n">>>>
  /\ stats.dateColumns = <<>>
  /\ stats.totalColumns = 5 /\ stats.totalRows = 20

----------------------------------------------------------------------------
\* C22: in every state of the dashboard the selected tab is enabled: the
\* question tab is selected only with a non-empty dataset, the results tab only
\* with a query result, the history tab only with a non-empty history.
C22_SelectedTabEnabled ==
  /\ selectedTab \in 0..3
  /\ selectedTab = 1 => data # <<>>
  /\ selectedTab = 2 => queryResult # Null
  /\ selectedTab = 3 => queryHistory # <<>>

----------------------------------------------------------------------------
\* C23: when the string of a successful result on a non-empty dataset is in the
\* AVG or the SUM form, it names a numeric column c of the dataset, as
\* "AVG(c) as average_c" or "SUM(c) as total_c"; it is never built from a
\* missing column.
C23_SqlNamesNumericColumn ==
  Called /\ data # <<>> /\ queryResult.error = Undefined
    => LET sql == queryResult.sql
       IN /\ IsAvgForm(sql)
               => \E i \in 1..Len(stats.numericColumns) :
                    StartsWith(sql, <<"S","E","L","E","C","T"," ","A","V","G","(">> \o stats.numericColumns[i] \o <<")"," ","a","s"," ","a","v","e","r","a","g","e","_">>
                                      \o stats.numericColumns[i] \o <<" ","F","R","O","M"," ","d","a","t","a">>)
          /\ IsSumForm(sql)
               => \E i \in 1..Len(stats.numericColumns) :
                    StartsWith(sql, <<"S","E","L","E","C","T"," ","S","U","M","(">> \o stats.numericColumns[i] \o <<")"," ","a","s"," ","t","o","t","a","l","_">>
                                      \o stats.numericColumns[i] \o <<" ","F","R","O","M"," ","d","a","t","a">>)

====
